---- MODULE Spec2Model ----
(***************************************************************************)
(* Pareto-efficiency checker and one-step cycle improver of question3.py.  *)
(*                                                                         *)
(* Numbers.  Allocation shares and epsilon are Python floats that the code *)
(* only adds, subtracts, multiplies and divides; they are modelled as      *)
(* exact rationals <<n, d>> in lowest terms.  Edge weights and the         *)
(* Bellman-Ford distances are Python floats whose rounding decides the     *)
(* control flow (a strict < between sums of logarithms), so they are       *)
(* modelled as IEEE-754 doubles: a double x is the pair <<hi, lo>> with    *)
(* x = (hi * LimbBase + lo) * 2^-56 and 0 <= lo < LimbBase, and every      *)
(* addition rounds to 53 significant bits, ties to even.                   *)
(***************************************************************************)
EXTENDS Integers, Sequences, FiniteSets, TLC

\* ------------------------------------------------------------------------
\* Exact rationals (shares, epsilon, utilities)
\* ------------------------------------------------------------------------
RECURSIVE Gcd(_, _)
Gcd(a, b) == IF b = 0 THEN a ELSE Gcd(b, a % b)

Abs(n) == IF n < 0 THEN 0 - n ELSE n

Rat(n, d) ==
    LET g == Gcd(Abs(n), Abs(d))
        s == IF d < 0 THEN 0 - 1 ELSE 1
    IN <<(s * n) \div g, (s * d) \div g>>

Lcm(a, b) == (a \div Gcd(a, b)) * b

RAdd(x, y) ==
    LET l == Lcm(x[2], y[2])
    IN Rat(x[1] * (l \div x[2]) + y[1] * (l \div y[2]), l)

RNeg(x) == <<0 - x[1], x[2]>>

RSub(x, y) == RAdd(x, RNeg(y))

RMul(x, y) ==
    LET a == Rat(x[1], y[2])
        b == Rat(y[1], x[2])
    IN <<a[1] * b[1], a[2] * b[2]>>

RLess(x, y) ==
    LET l == Lcm(x[2], y[2])
    IN x[1] * (l \div x[2]) < y[1] * (l \div y[2])

RLeq(x, y) == x = y \/ RLess(x, y)

RZero == <<0, 1>>

ROne == <<1, 1>>

\* ------------------------------------------------------------------------
\* IEEE-754 doubles in units of 2^-56 (edge weights, distances)
\* ------------------------------------------------------------------------
LimbBase == 2^30

FZero == <<0, 0>>

\* 1.0, the default weight networkx gives an edge without a weight attribute
FOne == <<2^26, 0>>

FNeg(x) == IF x[2] = 0 THEN <<0 - x[1], 0>> ELSE <<0 - x[1] - 1, LimbBase - x[2]>>

FLess(x, y) == x[1] < y[1] \/ (x[1] = y[1] /\ x[2] < y[2])

\* hi limb of 2^-3: below it a multiple of 2^-56 has at most 53 significant bits
Exact53 == 2^23

\* the spacing, in units of 2^-56, of the doubles around a magnitude with high
\* limb hi >= Exact53 (magnitudes below 16)
RECURSIVE Ulp(_, _, _)
Ulp(hi, top, q) == IF hi < top THEN q ELSE Ulp(hi, 2 * top, 2 * q)

\* round a non-negative exact sum to 53 significant bits, ties to even
FRoundMag(x) ==
    IF x[1] < Exact53 THEN x
    ELSE LET q    == Ulp(x[1], 2 * Exact53, 2)
             r    == x[2] % q
             base == x[2] - r
             up   == 2 * r > q \/ (2 * r = q /\ (base \div q) % 2 = 1)
             lo   == IF up THEN base + q ELSE base
         IN <<x[1] + (lo \div LimbBase), lo % LimbBase>>

FAdd(x, y) ==
    LET lo == x[2] + y[2]
        s  == <<x[1] + y[1] + (lo \div LimbBase), lo % LimbBase>>
    IN IF s[1] < 0 THEN FNeg(FRoundMag(FNeg(s))) ELSE FRoundMag(s)

\* math.log(a / b) for a / b > 0: the double CPython returns for the double
\* quotient a / b, keyed by the quotient in lowest terms.
LogTable ==
    (<<1, 5>> :> FNeg(<<108007549, 1054397232>>)) @@
    (<<1, 4>> :> FNeg(<<93032639, 799252208>>)) @@
    (<<1, 3>> :> FNeg(<<73726622, 718287024>>)) @@
    (<<2, 5>> :> FNeg(<<61491230, 117900216>>)) @@
    (<<1, 2>> :> FNeg(<<46516319, 936497016>>)) @@
    (<<3, 5>> :> FNeg(<<34280927, 336110224>>)) @@
    (<<2, 3>> :> FNeg(<<27210302, 855531828>>)) @@
    (<<3, 4>> :> FNeg(<<19306017, 80965192>>)) @@
    (<<4, 5>> :> FNeg(<<14974910, 255145024>>)) @@
    (<<1, 1>> :> FZero) @@
    (<<5, 4>> :> <<14974910, 255145028>>) @@
    (<<4, 3>> :> <<19306017, 80965188>>) @@
    (<<3, 2>> :> <<27210302, 855531824>>) @@
    (<<5, 3>> :> <<34280927, 336110224>>) @@
    (<<2, 1>> :> <<46516319, 936497016>>) @@
    (<<5, 2>> :> <<61491230, 117900224>>) @@
    (<<3, 1>> :> <<73726622, 718287024>>) @@
    (<<4, 1>> :> <<93032639, 799252208>>) @@
    (<<5, 1>> :> <<108007549, 1054397232>>)

\* math.log(a / b): a record with the exception raised, or the value
math_log_ratio(a, b) ==
    IF b = 0 THEN [raised |-> "ZeroDivisionError"]
    ELSE IF a = 0 \/ (a < 0) # (b < 0) THEN [raised |-> "ValueError"]
    ELSE [raised |-> "", value |-> LogTable[Rat(a, b)]]

\* ------------------------------------------------------------------------
\* Graph construction (question3.py lines 22-34 and 67-82)
\* ------------------------------------------------------------------------
num_players(valuations) == Cardinality(DOMAIN valuations)

num_items(valuations) == Cardinality(DOMAIN valuations[0])

\* [k for k in range(num_items) if allocations[i][k] != 0], from index k on
RECURSIVE indices_from(_, _, _, _)
indices_from(allocations, i, k, n) ==
    IF k >= n THEN <<>>
    ELSE (IF allocations[i][k] # RZero THEN <<k>> ELSE <<>>)
         \o indices_from(allocations, i, k + 1, n)

indices(valuations, allocations, i) ==
    indices_from(allocations, i, 0, num_items(valuations))

\* min_over with ties resolved the other way: the last index attaining the
\* least value is kept
RECURSIVE min_over_last(_, _, _, _, _, _)
min_over_last(valuations, i, j, idx, n, best) ==
    IF n > Len(idx) THEN [raised |-> "", weight |-> best[1], item |-> best[2]]
    ELSE LET k == idx[n]
             l == math_log_ratio(valuations[i][k], valuations[j][k])
         IN IF l.raised # "" THEN [raised |-> l.raised]
            ELSE IF best = <<>> \/ ~FLess(best[1], l.value)
                 THEN min_over_last(valuations, i, j, idx, n + 1, <<l.value, k>>)
                 ELSE min_over_last(valuations, i, j, idx, n + 1, best)

\* min(math.log(valuations[i][k] / valuations[j][k]) for k in indices) together
\* with min(indices, key=...): the logarithms are evaluated in index order, the
\* first exception ends the evaluation, and the first index attaining the least
\* value is kept.  best is <<>> before the first index.
RECURSIVE min_over(_, _, _, _, _, _)
min_over(valuations, i, j, idx, n, best) ==
    IF n > Len(idx) THEN [raised |-> "", weight |-> best[1], item |-> best[2]]
    ELSE LET k == idx[n]
             l == math_log_ratio(valuations[i][k], valuations[j][k])
         IN IF l.raised # "" THEN [raised |-> l.raised]
            ELSE IF best = <<>> \/ FLess(l.value, best[1])
                 THEN min_over(valuations, i, j, idx, n + 1, <<l.value, k>>)
                 ELSE min_over(valuations, i, j, idx, n + 1, best)

min_ratio_log(valuations, allocations, i, j) ==
    min_over(valuations, i, j, indices(valuations, allocations, i), 1, <<>>)

\* The double loop over (i, j): the list edges of (i, j, weight) triples and
\* item_dict, or the first exception raised while building them.
RECURSIVE build_edges(_, _, _, _, _)
build_edges(valuations, allocations, i, j, acc) ==
    LET n == num_players(valuations)
    IN IF i >= n THEN acc
       ELSE IF j >= n THEN build_edges(valuations, allocations, i + 1, 0, acc)
       ELSE IF i = j \/ indices(valuations, allocations, i) = <<>>
            THEN build_edges(valuations, allocations, i, j + 1, acc)
       ELSE LET m == min_ratio_log(valuations, allocations, i, j)
            IN IF m.raised # ""
               THEN [raised |-> m.raised, edges |-> <<>>, item_dict |-> <<>>]
               ELSE build_edges(valuations, allocations, i, j + 1,
                        [raised |-> "",
                         edges |-> Append(acc.edges, <<i, j, m.weight>>),
                         item_dict |-> (<<i, j>> :> m.item) @@ acc.item_dict])

edges_and_items(valuations, allocations) ==
    build_edges(valuations, allocations, 0, 0,
                [raised |-> "", edges |-> <<>>, item_dict |-> <<>>])

\* ------------------------------------------------------------------------
\* networkx: DiGraph, Bellman-Ford, negative_edge_cycle, find_negative_cycle
\* ------------------------------------------------------------------------
RECURSIVE nodes_of(_, _, _)
nodes_of(edges, n, acc) ==
    IF n > Len(edges) THEN acc
    ELSE LET u  == edges[n][1]
             v  == edges[n][2]
             a1 == IF \E x \in 1..Len(acc) : acc[x] = u THEN acc ELSE Append(acc, u)
             a2 == IF \E x \in 1..Len(a1) : a1[x] = v THEN a1 ELSE Append(a1, v)
         IN nodes_of(edges, n + 1, a2)

\* G = nx.DiGraph(); G.add_weighted_edges_from(edges): nodes in insertion order,
\* successors of a node in insertion order, weight per edge
DiGraph(edges) ==
    LET nodes == nodes_of(edges, 1, <<>>)
        ns    == {nodes[x] : x \in 1..Len(nodes)}
    IN [nodes  |-> nodes,
        succ   |-> [u \in ns |->
                      LET sel == SelectSeq(edges, LAMBDA e : e[1] = u)
                      IN [x \in 1..Len(sel) |-> sel[x][2]]],
        weight |-> [e \in {<<edges[x][1], edges[x][2]>> : x \in 1..Len(edges)} |->
                      LET x == CHOOSE x \in 1..Len(edges) :
                                  <<edges[x][1], edges[x][2]>> = e
                      IN edges[x][3]]]

\* d[k] = v on a Python dict
Put(d, k, v) == (k :> v) @@ d

\* The relaxation loop "for v, e in G_succ[u].items()" of _inner_bellman_ford,
\* from the x-th successor of u on.  found holds the node the routine returns
\* when it detects a negative cycle.
RECURSIVE bf_relax(_, _, _, _, _, _)
bf_relax(G, n, st, u, dist_u, x) ==
    IF x > Len(G.succ[u]) THEN st
    ELSE
    LET v      == G.succ[u][x]
        dist_v == FAdd(dist_u, G.weight[<<u, v>>])
    IN IF v \notin DOMAIN st.dist \/ FLess(dist_v, st.dist[v])
       THEN IF v \in st.recent_update[u]
            THEN [st EXCEPT !.pred = Put(@, v, Append(@[v], u)), !.found = {v}]
            ELSE
            LET ru == IF v \in DOMAIN st.pred_edge /\ st.pred_edge[v] = {u}
                      THEN st.recent_update[u] ELSE {u, v}
                s1 == [st EXCEPT !.recent_update = Put(@, v, ru)]
                enq == v \notin s1.in_q
                count_v == (IF v \in DOMAIN s1.count THEN s1.count[v] ELSE 0) + 1
            IN IF enq /\ count_v = n
               THEN [s1 EXCEPT !.q = Append(@, v), !.in_q = @ \cup {v}, !.found = {v}]
               ELSE
               LET s2 == IF enq
                         THEN [s1 EXCEPT !.q = Append(@, v), !.in_q = @ \cup {v},
                                         !.count = Put(@, v, count_v)]
                         ELSE s1
                   s3 == [s2 EXCEPT !.dist = Put(@, v, dist_v),
                                    !.pred = Put(@, v, <<u>>),
                                    !.pred_edge = Put(@, v, {u})]
               IN bf_relax(G, n, s3, u, dist_u, x + 1)
       ELSE IF v \in DOMAIN st.dist /\ dist_v = st.dist[v]
            THEN bf_relax(G, n, [st EXCEPT !.pred = Put(@, v, Append(@[v], u))],
                          u, dist_u, x + 1)
            ELSE bf_relax(G, n, st, u, dist_u, x + 1)

\* The "while q" loop of _inner_bellman_ford
RECURSIVE bf_loop(_, _, _)
bf_loop(G, n, st) ==
    IF st.found # {} \/ st.q = <<>> THEN st
    ELSE LET u  == Head(st.q)
             s1 == [st EXCEPT !.q = Tail(@), !.in_q = @ \ {u}]
         IN IF \A x \in 1..Len(s1.pred[u]) : s1.pred[u][x] \notin s1.in_q
            THEN bf_loop(G, n, bf_relax(G, n, s1, u, s1.dist[u], 1))
            ELSE bf_loop(G, n, s1)

\* _inner_bellman_ford(G, [source], weight, pred) with heuristic=True
inner_bellman_ford(G, source) ==
    bf_loop(G, Len(G.nodes),
            [q |-> <<source>>, in_q |-> {source},
             dist |-> (source :> FZero), pred |-> (source :> <<>>),
             pred_edge |-> (source :> {}), recent_update |-> (source :> {}),
             count |-> <<>>, found |-> {}])

newnode == 0 - 1

\* nx.negative_edge_cycle(G): a new node with an edge of default weight 1.0 to
\* every node, then Bellman-Ford from it; False at once for a graph with no edge
negative_edge_cycle(edges) ==
    LET H(G) == [nodes  |-> Append(G.nodes, newnode),
                 succ   |-> (newnode :> G.nodes) @@ G.succ,
                 weight |-> [e \in {<<newnode, G.nodes[x]>> : x \in 1..Len(G.nodes)}
                                |-> FOne] @@ G.weight]
    IN IF Len(edges) = 0 THEN FALSE
       ELSE inner_bellman_ford(H(DiGraph(edges)), newnode).found # {}

Reverse(s) == [x \in 1..Len(s) |-> s[Len(s) + 1 - x]]

\* The stack walk of find_negative_cycle over the predecessor lists
RECURSIVE fnc_loop(_, _, _, _, _, _)
fnc_loop(G, pred, v, stack, neg_cycle, seen) ==
    IF stack = <<>> THEN [raised |-> "NetworkXUnbounded", cycle |-> <<>>]
    ELSE
    LET node  == stack[Len(stack)][1]
        preds == stack[Len(stack)][2]
    IN IF \E x \in 1..Len(preds) : preds[x] = v
       THEN [raised |-> "", cycle |-> Reverse(neg_cycle \o <<node, v>>)]
       ELSE IF preds # <<>>
       THEN LET nbr    == preds[Len(preds)]
                stack1 == [stack EXCEPT ![Len(stack)] =
                              <<node, SubSeq(preds, 1, Len(preds) - 1)>>]
            IN IF nbr \notin seen
               THEN fnc_loop(G, pred, v, Append(stack1, <<nbr, pred[nbr]>>),
                             Append(neg_cycle, node), seen \cup {nbr})
               ELSE fnc_loop(G, pred, v, stack1, neg_cycle, seen)
       ELSE LET stack1 == SubSeq(stack, 1, Len(stack) - 1)
            IN IF neg_cycle # <<>>
               THEN fnc_loop(G, pred, v, stack1,
                             SubSeq(neg_cycle, 1, Len(neg_cycle) - 1), seen)
               ELSE IF <<v, v>> \in DOMAIN G.weight /\ FLess(G.weight[<<v, v>>], FZero)
                    THEN [raised |-> "", cycle |-> <<v, v>>]
                    ELSE [raised |-> "NetworkXError", cycle |-> <<>>]

\* nx.find_negative_cycle(G, source): the cycle as a node list whose last node
\* repeats the first, or the exception raised; with no negative cycle the
\* library raises NetworkXError
find_negative_cycle(G, source) ==
    LET walk(st, v) == fnc_loop(G, st.pred, v, <<<<v, st.pred[v]>>>>, <<>>, {v})
        searched(st) ==
            IF st.found = {} THEN [raised |-> "NetworkXError", cycle |-> <<>>]
            ELSE walk(st, CHOOSE v \in st.found : TRUE)
    IN searched(inner_bellman_ford(G, source))

\* ------------------------------------------------------------------------
\* The two entry points
\* ------------------------------------------------------------------------
\* is_pareto_efficient(valuations, allocations): "True", "False" or the name of
\* the exception raised
is_pareto_efficient(valuations, allocations) ==
    LET built(b) ==
            IF b.raised # "" THEN b.raised
            ELSE IF negative_edge_cycle(b.edges) THEN "False" ELSE "True"
    IN built(edges_and_items(valuations, allocations))

epsilon0 == <<1, 1000>>

\* epsilon * valuations[v][item] / valuations[u][item] (lines 99 and 100)
transfer_amount(valuations, epsilon, u, v, item) ==
    RMul(epsilon, Rat(valuations[v][item], valuations[u][item]))

\* allocations[v][item] += amount (line 99)
give(allocations, v, item, amount) ==
    [allocations EXCEPT ![v][item] = RAdd(@, amount)]

\* line 100 left out: the giver keeps its share
take_forgotten(allocations, u, item, amount) == allocations

\* allocations[u][item] -= amount (line 100)
take(allocations, u, item, amount) ==
    [allocations EXCEPT ![u][item] = RSub(@, amount)]

\* line 101 left out: epsilon is carried to the next edge as it is
next_epsilon_unscaled(valuations, epsilon, u, v, item) == epsilon

\* epsilon *= valuations[u][item] / valuations[v][item] (line 101)
next_epsilon(valuations, epsilon, u, v, item) ==
    RMul(epsilon, Rat(valuations[u][item], valuations[v][item]))

\* The loop over the cycle's edges, from the i-th edge on (lines 95-101)
RECURSIVE improve_from(_, _, _, _, _, _)
improve_from(valuations, allocations, item_dict, cycle, i, epsilon) ==
    IF i > Len(cycle) - 1 THEN [ret |-> "matrix", allocations |-> allocations]
    ELSE
    LET u == cycle[i]
        v == cycle[i + 1]
    IN IF <<u, v>> \notin DOMAIN item_dict
       THEN [ret |-> "KeyError", allocations |-> allocations]
       ELSE
       LET item == item_dict[<<u, v>>]
       IN IF valuations[u][item] = 0
          THEN [ret |-> "ZeroDivisionError", allocations |-> allocations]
          ELSE
          LET amount == transfer_amount(valuations, epsilon, u, v, item)
              a1 == give(allocations, v, item, amount)
              a2 == take(a1, u, item, amount)
          IN IF valuations[v][item] = 0
             THEN [ret |-> "ZeroDivisionError", allocations |-> a2]
             ELSE improve_from(valuations, a2, item_dict, cycle, i + 1,
                               next_epsilon(valuations, epsilon, u, v, item))

\* the exceptions the "except nx.NetworkXNoCycle" clause of line 91 catches
Caught == {"NetworkXNoCycle"}

\* check_and_improve_pareto_effiecient(valuations, allocations): what it
\* returns or raises ("True", "matrix" or an exception name), the allocation
\* matrix as the call leaves it, and the cycle it found
check_and_improve_pareto_effiecient(valuations, allocations) ==
    LET improved(r, cycle) ==
            [ret |-> r.ret, allocations |-> r.allocations, cycle |-> cycle]
        searched(b, f) ==
            IF f.raised \in Caught
            THEN [ret |-> "True", allocations |-> allocations, cycle |-> <<>>]
            ELSE IF f.raised # ""
            THEN [ret |-> f.raised, allocations |-> allocations, cycle |-> <<>>]
            ELSE improved(improve_from(valuations, allocations, b.item_dict,
                                       f.cycle, 1, epsilon0), f.cycle)
        built(b) ==
            IF b.raised # ""
            THEN [ret |-> b.raised, allocations |-> allocations, cycle |-> <<>>]
            ELSE IF b.edges = <<>>
            THEN [ret |-> "IndexError", allocations |-> allocations, cycle |-> <<>>]
            ELSE searched(b, find_negative_cycle(DiGraph(b.edges), b.edges[1][1]))
    IN built(edges_and_items(valuations, allocations))

\* ------------------------------------------------------------------------
\* Inputs
\* ------------------------------------------------------------------------
MaxVal == 3

AllocDen == 2

MaxSteps == 2

\* (players, items) of the matrices a behaviour starts from; the matrices of
\* three players and two items take their valuations from WideVals
Shapes == {<<1, 1>>, <<1, 2>>, <<2, 1>>, <<2, 2>>, <<3, 1>>}

WideShapes == {<<3, 2>>}

WideVals == {1, 2}

\* three players and three items: every player ranks the items 1..3 and every
\* item is held whole by one player
RingShapes == {<<3, 3>>}

Rankings(K) ==
    {r \in [0..(K - 1) -> 1..K] : \A x, y \in 0..(K - 1) : x # y => r[x] # r[y]}

RECURSIVE ColumnSum(_, _)
ColumnSum(c, i) == IF i < 0 THEN 0 ELSE c[i] + ColumnSum(c, i - 1)

\* one item handed out in full to P players in units of 1 / den
Columns(P, den) == {c \in [0..(P - 1) -> 0..den] : ColumnSum(c, P - 1) = den}

\* every item handed out in full in units of 1 / den, or nothing allocated
AllocationsOf(P, K, den) ==
    {[i \in 0..(P - 1) |-> [k \in 0..(K - 1) |-> Rat(cols[k][i], den)]] :
        cols \in [0..(K - 1) -> Columns(P, den)]}
    \cup {[i \in 0..(P - 1) |-> [k \in 0..(K - 1) |-> RZero]]}

\* every item split evenly among a non-empty set of holders
EvenSplitsOf(P, K) ==
    {[i \in 0..(P - 1) |-> [k \in 0..(K - 1) |->
          IF i \in h[k] THEN Rat(1, Cardinality(h[k])) ELSE RZero]] :
        h \in [0..(K - 1) -> (SUBSET (0..(P - 1))) \ {{}}]}

ValuationsOf(P, K, vals) == [0..(P - 1) -> [0..(K - 1) -> vals]]

\* ------------------------------------------------------------------------
\* State machine: a caller holding the two matrices and calling the entry
\* points on them; check_and_improve mutates the caller's allocation matrix.
\* before is the allocation matrix as the last call received it, steps counts
\* the calls that returned a matrix.
\* ------------------------------------------------------------------------
VARIABLES valuations, allocations, op, ret, before, cycle, steps

vars == <<valuations, allocations, op, ret, before, cycle, steps>>

NoCallYet ==
    /\ op = "init"
    /\ ret = ""
    /\ before = allocations
    /\ cycle = <<>>
    /\ steps = 0

Init ==
    /\ \/ \E sh \in Shapes :
             /\ valuations \in ValuationsOf(sh[1], sh[2], 1..MaxVal)
             /\ allocations \in AllocationsOf(sh[1], sh[2], AllocDen)
       \/ \E sh \in WideShapes :
             /\ valuations \in ValuationsOf(sh[1], sh[2], WideVals)
             /\ allocations \in AllocationsOf(sh[1], sh[2], AllocDen)
       \/ \E sh \in RingShapes :
             /\ valuations \in [0..(sh[1] - 1) -> Rankings(sh[2])]
             /\ allocations \in AllocationsOf(sh[1], sh[2], 1)
    /\ NoCallYet

IsParetoEfficient ==
    /\ op' = "is_pareto_efficient"
    /\ ret' = is_pareto_efficient(valuations, allocations)
    /\ before' = allocations
    /\ cycle' = <<>>
    /\ UNCHANGED <<valuations, allocations, steps>>

CheckAndImprove ==
    /\ steps < MaxSteps
    /\ \E r \in {check_and_improve_pareto_effiecient(valuations, allocations)} :
          /\ op' = "check_and_improve"
          /\ ret' = r.ret
          /\ allocations' = r.allocations
          /\ before' = allocations
          /\ cycle' = r.cycle
          /\ steps' = IF r.ret = "matrix" THEN steps + 1 ELSE steps
    /\ UNCHANGED valuations

Next == IsParetoEfficient \/ CheckAndImprove

Spec == Init /\ [][Next]_vars

\* One item shared by three or four players: every allocation of a single item
\* is Pareto efficient, and every cycle of the exchange graph has product 1
SharedShapes == {<<3, 1>>, <<4, 1>>}

SharedVals == 1..5

InitShared ==
    /\ \E sh \in SharedShapes :
          /\ valuations \in ValuationsOf(sh[1], sh[2], SharedVals)
          /\ allocations \in EvenSplitsOf(sh[1], sh[2])
    /\ NoCallYet

SpecShared == InitShared /\ [][Next]_vars

\* Valuation matrices that break the input contract (entries <= 0)
AnyShapes == {<<2, 1>>, <<2, 2>>}

AnyVals == (0 - 2)..2

InitAny ==
    /\ \E sh \in AnyShapes :
          /\ valuations \in ValuationsOf(sh[1], sh[2], AnyVals)
          /\ allocations \in AllocationsOf(sh[1], sh[2], AllocDen)
    /\ NoCallYet

SpecAny == InitAny /\ [][Next]_vars

\* The valuations of concrete scenario 3 (and of the doctests of lines 17-20
\* and 48), with every share a tenth the documented allocations use
Scenario3Valuations ==
    [i \in 0..1 |-> [k \in 0..3 |->
        <<<<10, 20, 30, 40>>, <<40, 30, 20, 10>>>>[i + 1][k + 1]]]

ScenarioShares == {Rat(0, 10), Rat(1, 10), Rat(3, 10), Rat(4, 10),
                   Rat(6, 10), Rat(7, 10), Rat(9, 10), Rat(10, 10)}

InitScenario ==
    /\ valuations = Scenario3Valuations
    /\ \E s \in [0..3 -> ScenarioShares] :
          allocations = [i \in 0..1 |-> [k \in 0..3 |->
                            IF i = 0 THEN s[k] ELSE RSub(ROne, s[k])]]
    /\ NoCallYet

SpecScenario == InitScenario /\ [][Next]_vars

\* ------------------------------------------------------------------------
\* What the properties speak of: utilities, column totals, and the exchange
\* graph in exact arithmetic (ratios instead of their logarithms)
\* ------------------------------------------------------------------------
Players == DOMAIN valuations

Items == DOMAIN valuations[0]

Improved == op = "check_and_improve" /\ ret = "matrix"

OnCycle == {cycle[n] : n \in 1..Len(cycle)}

RECURSIVE UtilityUpTo(_, _, _)
UtilityUpTo(A, u, k) ==
    IF k < 0 THEN RZero
    ELSE RAdd(RMul(A[u][k], <<valuations[u][k], 1>>), UtilityUpTo(A, u, k - 1))

\* sum over k of A[u][k] * V[u][k]
Utility(A, u) == UtilityUpTo(A, u, Cardinality(Items) - 1)

RECURSIVE ColumnTotalUpTo(_, _, _)
ColumnTotalUpTo(A, k, i) ==
    IF i < 0 THEN RZero ELSE RAdd(A[i][k], ColumnTotalUpTo(A, k, i - 1))

\* sum over i of A[i][k]
ColumnTotal(A, k) == ColumnTotalUpTo(A, k, Cardinality(Players) - 1)

Held(A, i) == {k \in Items : A[i][k] # RZero}

HasEdge(A, i, j) == i # j /\ Held(A, i) # {}

ExactRatio(i, j, k) == Rat(valuations[i][k], valuations[j][k])

\* the first held index that minimises V[u][k] / V[v][k]
CriticalItem(A, u, v) ==
    CHOOSE k \in Held(A, u) :
        \A k2 \in Held(A, u) :
            /\ RLeq(ExactRatio(u, v, k), ExactRatio(u, v, k2))
            /\ (ExactRatio(u, v, k2) = ExactRatio(u, v, k) => k <= k2)

MinRatio(A, i, j) == ExactRatio(i, j, CriticalItem(A, i, j))

RECURSIVE WalkProduct(_, _, _)
WalkProduct(A, c, n) ==
    IF n > Len(c) THEN ROne
    ELSE RMul(MinRatio(A, c[n], c[IF n = Len(c) THEN 1 ELSE n + 1]),
              WalkProduct(A, c, n + 1))

\* the simple directed cycles of the exchange graph, as node sequences
SimpleCycles(A) ==
    {c \in UNION {[1..n -> Players] : n \in 2..Cardinality(Players)} :
        /\ \A x, y \in 1..Len(c) : x # y => c[x] # c[y]
        /\ \A x \in 1..Len(c) : HasEdge(A, c[x], c[IF x = Len(c) THEN 1 ELSE x + 1])}

\* some cycle of players has a product of minimum ratios strictly below 1
ExactNegativeCycle(A) ==
    \E c \in SimpleCycles(A) : RLess(WalkProduct(A, c, 1), ROne)

NoEdges(A) == \A i, j \in Players : ~HasEdge(A, i, j)

\* a ratio with a non-positive operand is among those the graph construction
\* has to evaluate
BadRatio(A) ==
    \E i, j \in Players : \E k \in Held(A, i) :
        i # j /\ (valuations[i][k] <= 0 \/ valuations[j][k] <= 0)

\* ------------------------------------------------------------------------
\* Properties
\* ------------------------------------------------------------------------
\* C1: is_pareto_efficient returns true exactly when the exchange graph has no
\* cycle whose product of minimum ratios is strictly below 1; a cycle of
\* product exactly 1 counts as efficient.
C1_EfficientIffNoNegativeCycle ==
    op = "is_pareto_efficient" =>
        (ret = "True" <=> ~ExactNegativeCycle(before))

\* C2: when check_and_improve returns a matrix, no player on the detected cycle
\* has a lower utility than before the call, and at least one has a strictly
\* greater one.
C2_ImprovementMonotone ==
    Improved =>
        /\ \A u \in OnCycle : RLeq(Utility(before, u), Utility(allocations, u))
        /\ \E u \in OnCycle : RLess(Utility(before, u), Utility(allocations, u))

\* C3: when check_and_improve returns a matrix, every item's column total is
\* what it was before the call.
C3_Conservation ==
    Improved =>
        \A k \in Items : ColumnTotal(allocations, k) = ColumnTotal(before, k)

C3_Witness ==
    /\ Improved
    /\ Cardinality(OnCycle) = 3
    /\ \E k \in Items : /\ ColumnTotal(before, k) = ROne
                        /\ \E i \in Players : allocations[i][k] # before[i][k]

\* C4: on an input that is_pareto_efficient calls efficient, check_and_improve
\* returns the boolean true and leaves the allocation matrix as it was.
C4_EfficientIdempotent ==
    (op = "check_and_improve" /\ is_pareto_efficient(valuations, before) = "True")
        => (ret = "True" /\ allocations = before)

\* C5: when the graph construction has to evaluate a ratio with an operand
\* <= 0, the call ends in an error (the ValueError of math.log or the
\* ZeroDivisionError of the division) and the allocation matrix is unchanged.
C5_DomainError ==
    (op # "init" /\ BadRatio(before))
        => (ret \in {"ValueError", "ZeroDivisionError"} /\ allocations = before)

\* C6: on an input whose exchange graph has no edge, both entry points report
\* efficient (return true) without raising.
C6_EdgeFreeEfficient ==
    (op # "init" /\ NoEdges(before)) => ret = "True"

\* the allocation of scenario 3: [[0, 0.6, 1, 0.9], [1, 0.4, 0, 0.1]]
Scenario3Allocations ==
    [i \in 0..1 |-> [k \in 0..3 |->
        <<<<Rat(0, 10), Rat(6, 10), Rat(10, 10), Rat(9, 10)>>,
          <<Rat(10, 10), Rat(4, 10), Rat(0, 10), Rat(1, 10)>>>>[i + 1][k + 1]]]

OnScenario3 == valuations = Scenario3Valuations /\ before = Scenario3Allocations

\* C7 as stated: on scenario 3, is_pareto_efficient returns false, and
\* check_and_improve returns a matrix in which player 0's share of item 0 is
\* greater than 0, player 1's share of item 0 is lower by the same amount, and
\* every column still sums to 1.
C7_Scenario3AsStated ==
    OnScenario3 =>
        /\ op = "is_pareto_efficient" => ret = "False"
        /\ op = "check_and_improve" =>
              /\ ret = "matrix"
              /\ RLess(RZero, allocations[0][0])
              /\ RSub(before[1][0], allocations[1][0])
                    = RSub(allocations[0][0], before[0][0])
              /\ \A k \in Items : ColumnTotal(allocations, k) = ROne

\* C7: on scenario 3, is_pareto_efficient returns false, and check_and_improve
\* returns a matrix in which player 0's share of item 3 has grown by 1/375 and
\* player 1's has shrunk by as much, player 0's share of item 1 has shrunk by
\* 3/2000 and player 1's has grown by as much, the shares of items 0 and 2 are
\* what they were, and every column still sums to 1.
C7_Scenario3 ==
    OnScenario3 =>
        /\ op = "is_pareto_efficient" => ret = "False"
        /\ op = "check_and_improve" =>
              /\ ret = "matrix"
              /\ RSub(allocations[0][3], before[0][3]) = Rat(1, 375)
              /\ RSub(before[1][3], allocations[1][3]) = Rat(1, 375)
              /\ RSub(before[0][1], allocations[0][1]) = Rat(3, 2000)
              /\ RSub(allocations[1][1], before[1][1]) = Rat(3, 2000)
              /\ \A i \in Players : \A k \in {0, 2} :
                    allocations[i][k] = before[i][k]
              /\ \A k \in Items : ColumnTotal(allocations, k) = ROne

C7_Witness == OnScenario3 /\ Improved /\ allocations # before

\* C8 (state part): when check_and_improve returns a matrix, an entry A[i][k] that differs
\* from its value before the call belongs to an edge (u, v) of the detected
\* cycle: i is u or v and k is the critical item of (u, v); the valuation
\* matrix is never modified.
C8_FrameOfStep ==
    Improved =>
        \A i \in Players : \A k \in Items :
            allocations[i][k] # before[i][k] =>
                \E n \in 1..(Len(cycle) - 1) :
                    /\ i \in {cycle[n], cycle[n + 1]}
                    /\ k = CriticalItem(before, cycle[n], cycle[n + 1])

\* C8: the frame of the improvement step holds after every call, and no step
\* of either entry point changes the valuation matrix.
C8_Frame == []C8_FrameOfStep /\ [][valuations' = valuations]_vars

C8_Witness ==
    /\ Improved
    /\ allocations # before
    /\ \E i \in Players : i \notin OnCycle /\ Held(before, i) # {}
    /\ \E u \in OnCycle : Cardinality(Held(before, u)) > 1

\* C9: on an input that is_pareto_efficient calls inefficient, check_and_improve
\* returns a modified matrix.
C9_InefficientImproves ==
    (op = "check_and_improve" /\ is_pareto_efficient(valuations, before) = "False")
        => (ret = "matrix" /\ allocations # before)

\* C10: every share stays in [0, 1] over any number of successive calls.
C10_RangePreserved ==
    \A i \in Players : \A k \in Items :
        RLeq(RZero, allocations[i][k]) /\ RLeq(allocations[i][k], ROne)

====
